---- MODULE Spec2Model ----
(***************************************************************************)
(* ScreenPilot Research Copilot backend (src/server): the FastAPI handlers *)
(* of main.py and the three client wrappers of utils/ (LlamaIndexClient,   *)
(* WeaviateClient, FriendliaiClient).                                      *)
(*                                                                         *)
(* Strings are sequences of character codes.  A call that can raise is     *)
(* modelled by a result record: [ok |-> TRUE, value |-> v] for a return,   *)
(* [ok |-> FALSE, exc |-> type, msg |-> text] for a raised exception.      *)
(* The external services (embedding model, vector store, completion        *)
(* providers) are the environment: what each of their calls answers is an  *)
(* input of the operation that makes the call.                             *)
(***************************************************************************)
EXTENDS Integers, Sequences, FiniteSets, TLC

VARIABLES
    settings,         \* the settings object handed to the clients
    endpoint_status,  \* what a GET on the configured FRIENDLIAI_ENDPOINT answers
    store,            \* the PageContext collection: records in insertion order
    last              \* the operation that ran last: its inputs, calls and outcome

vars == <<settings, endpoint_status, store, last>>

None == "None"

Ok(v) == [ok |-> TRUE, value |-> v, exc |-> None, msg |-> None]
Raise(type, text) == [ok |-> FALSE, value |-> None, exc |-> type, msg |-> text]

\* Python truthiness of an optional string
Truthy(x) == x # None /\ x # ""

Min(a, b) == IF a < b THEN a ELSE b

(***************************************************************************)
(* Texts.                                                                  *)
(***************************************************************************)
\* the chunk width of build_index and extract_and_store_pdf
CHUNK_SIZE == 1000

\* longest text of the chunking specification
MaxTextLen == 2001

NEWLINE == 10
SPACE == 32

\* a text of n characters: pairwise distinct ones, or n times the same one
Text(n, pattern) == [i \in 1..n |-> IF pattern = "distinct" THEN 100 + i ELSE 100]

AllTexts == {Text(n, p) : n \in 0..MaxTextLen, p \in {"distinct", "uniform"}}

(***************************************************************************)
(* Python built-ins used by the chunking code.                             *)
(***************************************************************************)
RECURSIVE RangeInclusive(_, _, _)
RangeInclusive(start, stop, step) ==
    IF start > stop THEN <<>>
    ELSE <<start>> \o RangeInclusive(start + step, stop, step)

\* range(start, stop, step) for step > 0
RECURSIVE Range(_, _, _)
Range(start, stop, step) ==
    IF start >= stop THEN <<>>
    ELSE <<start>> \o Range(start + step, stop, step)

SliceDropsLast(s, a, b) == SubSeq(s, a + 1, Min(b, Len(s)) - 1)

\* s[a:b] for 0 <= a <= b
Slice(s, a, b) == SubSeq(s, a + 1, Min(b, Len(s)))

\* chunks = [text[i:i+1000] for i in range(0, len(text), 1000)]
Chunks(text) ==
    LET starts == Range(0, Len(text), CHUNK_SIZE)
    IN  [k \in 1..Len(starts) |-> Slice(text, starts[k], starts[k] + CHUNK_SIZE)]

\* the vector the embedding model returns for a text: a function of the text
Embedding(t) == [of_len |-> Len(t), of_first |-> IF Len(t) = 0 THEN 0 ELSE t[1]]

(***************************************************************************)
(* LlamaIndexClient.build_index.  bad is the set of chunk positions whose  *)
(* get_text_embedding call raises.                                         *)
(***************************************************************************)
RECURSIVE EmbedLoop(_, _, _, _)
EmbedLoop(chunks, i, bad, acc) ==
    IF i > Len(chunks) THEN [ok |-> TRUE, embeddings |-> acc, embedded |-> i - 1]
    ELSE IF i \in bad
         THEN [ok |-> FALSE, embeddings |-> acc, embedded |-> i]
         ELSE EmbedLoop(chunks, i + 1, bad, Append(acc, Embedding(chunks[i])))

\* a build_index that returns the embeddings it got when a request fails
BuildIndexReturnsPartial(text, bad) ==
    LET chunks == Chunks(text)
        loop == EmbedLoop(chunks, 1, bad, <<>>)
    IN  Ok(<<chunks, loop.embeddings>>) @@ [embed_calls |-> loop.embedded]

\* a build_index that requests every embedding before it reports a failure
BuildIndexEmbedsAll(text, bad) ==
    LET chunks == Chunks(text)
        loop == EmbedLoop(chunks, 1, {}, <<>>)
    IN  IF bad \cap (1..Len(chunks)) = {}
        THEN Ok(<<chunks, loop.embeddings>>) @@ [embed_calls |-> Len(chunks)]
        ELSE Raise("EmbeddingError", "embedding request failed")
                 @@ [embed_calls |-> Len(chunks)]

\* the result, and embed_calls: how many embedding requests were made
build_index(text, bad) ==
    LET chunks == Chunks(text)
        loop == EmbedLoop(chunks, 1, bad, <<>>)
    IN  IF loop.ok
        THEN Ok(<<chunks, loop.embeddings>>) @@ [embed_calls |-> loop.embedded]
        ELSE Raise("EmbeddingError", "embedding request failed")
                 @@ [embed_calls |-> loop.embedded]

(***************************************************************************)
(* Chunking specification: a text is drawn, build_index is applied to it.  *)
(***************************************************************************)
NoSettings == [FRIENDLIAI_API_KEY |-> None, FRIENDLIAI_ENDPOINT |-> None,
               GEMINI_API_KEY |-> None]

NoStore == [exists |-> FALSE, objects |-> <<>>]

InitChunk ==
    /\ settings = NoSettings
    /\ endpoint_status = "unreachable"
    /\ store = NoStore
    /\ \E t \in AllTexts : last = [op |-> "text", text |-> t]

BuildIndex ==
    /\ last.op = "text"
    /\ \E bad \in SUBSET (1..Len(Chunks(last.text))) :
          last' = [op |-> "build_index", text |-> last.text, bad |-> bad,
                   result |-> build_index(last.text, bad)]
    /\ UNCHANGED <<settings, endpoint_status, store>>

NextChunk == BuildIndex

SpecChunk == InitChunk /\ [][NextChunk]_vars

(***************************************************************************)
(* FriendliaiClient (utils/friendliai_client.py).                          *)
(***************************************************************************)
DEFAULT_BASE_URL == "https://api.friendli.ai"
GEMINI_BASE_URL == "https://generativelanguage.googleapis.com/v1beta"
CUSTOM_ENDPOINT == "https://custom.friendli.ai"

ClientObject(s, base_url) ==
    [friendliai_api_key |-> s.FRIENDLIAI_API_KEY,
     gemini_api_key |-> s.GEMINI_API_KEY,
     friendliai_base_url |-> base_url,
     gemini_base_url |-> GEMINI_BASE_URL]

\* a constructor that takes the configured endpoint without probing it
InitTrustsEndpoint(s) ==
    IF ~Truthy(s.FRIENDLIAI_API_KEY)
    THEN [res |-> Raise("ValueError",
                        "FRIENDLIAI_API_KEY environment variable is required"),
          probes |-> <<>>]
    ELSE [res |-> Ok(ClientObject(s, IF Truthy(s.FRIENDLIAI_ENDPOINT)
                                     THEN s.FRIENDLIAI_ENDPOINT
                                     ELSE DEFAULT_BASE_URL)),
          probes |-> <<>>]

\* a constructor that probes whatever endpoint is set, the empty one too
InitProbesEmptyEndpoint(s) ==
    IF ~Truthy(s.FRIENDLIAI_API_KEY)
    THEN [res |-> Raise("ValueError",
                        "FRIENDLIAI_API_KEY environment variable is required"),
          probes |-> <<>>]
    ELSE IF s.FRIENDLIAI_ENDPOINT = None
         THEN [res |-> Ok(ClientObject(s, DEFAULT_BASE_URL)), probes |-> <<>>]
         ELSE [res |-> Ok(ClientObject(s, IF endpoint_status = "200"
                                          THEN s.FRIENDLIAI_ENDPOINT
                                          ELSE DEFAULT_BASE_URL)),
               probes |-> <<s.FRIENDLIAI_ENDPOINT>>]

\* a constructor that is content with either API key
InitAcceptsGeminiKey(s) ==
    IF ~Truthy(s.FRIENDLIAI_API_KEY) /\ ~Truthy(s.GEMINI_API_KEY)
    THEN [res |-> Raise("ValueError",
                        "FRIENDLIAI_API_KEY environment variable is required"),
          probes |-> <<>>]
    ELSE [res |-> Ok(ClientObject(s, DEFAULT_BASE_URL)), probes |-> <<>>]

\* FriendliaiClient.__init__(settings): the constructed object or the raised
\* error, and probes: the URLs it sent a request to.  FRIENDLIAI_ENDPOINT is
\* not read and no request is made.
FriendliaiClient_init(s) ==
    IF ~Truthy(s.FRIENDLIAI_API_KEY)
    THEN [res |-> Raise("ValueError",
                        "FRIENDLIAI_API_KEY environment variable is required"),
          probes |-> <<>>]
    ELSE [res |-> Ok(ClientObject(s, DEFAULT_BASE_URL)), probes |-> <<>>]

\* what a completion provider answers to one request
ProviderAnswers == {"ok", "status_error", "request_error", "empty_list", "missing_key"}

\* the text a provider generates for a prompt
Content(provider, prompt) == <<provider, prompt>>

\* response.raise_for_status(), response.json() and the chain of .get()s
ParseAnswer(provider, prompt, answer) ==
    CASE answer = "request_error" -> Raise("RequestError", "connection failed")
      [] answer = "status_error" -> Raise("HTTPStatusError", "server error")
      [] answer = "empty_list" -> Raise("IndexError", "list index out of range")
      [] answer = "missing_key" -> Ok(<<>>)
      [] OTHER -> Ok(Content(provider, prompt))

\* FriendliaiClient._query_friendliai
query_friendliai(client, prompt, answer) ==
    [res |-> ParseAnswer("friendliai", prompt, answer),
     calls |-> <<[provider |-> "friendliai", prompt |-> prompt]>>,
     requests |-> <<[to |-> "friendliai", url |-> client.friendliai_base_url,
                     prompt |-> prompt]>>]

\* FriendliaiClient._query_gemini
query_gemini(client, prompt, answer) ==
    IF ~Truthy(client.gemini_api_key)
    THEN [res |-> Raise("ValueError", "GEMINI_API_KEY is required for Gemini fallback"),
          calls |-> <<[provider |-> "gemini", prompt |-> prompt]>>,
          requests |-> <<>>]
    ELSE [res |-> ParseAnswer("gemini", prompt, answer),
          calls |-> <<[provider |-> "gemini", prompt |-> prompt]>>,
          requests |-> <<[to |-> "gemini", url |-> client.gemini_base_url,
                          prompt |-> prompt]>>]

\* a query_model that tries the selected provider a second time before it
\* falls back to the other one
QueryModelRetries(client, prompt, use_gemini, fr, gm) ==
    LET first == IF use_gemini THEN query_gemini(client, prompt, gm)
                 ELSE query_friendliai(client, prompt, fr)
    IN  IF first.res.ok THEN first
        ELSE LET second == IF use_gemini THEN query_friendliai(client, prompt, fr)
                           ELSE query_gemini(client, prompt, gm)
             IN  [res |-> second.res,
                  calls |-> first.calls \o first.calls \o second.calls,
                  requests |-> first.requests \o first.requests \o second.requests]

\* a query_model whose except branch re-raises instead of falling back
QueryModelNoFallback(client, prompt, use_gemini, fr, gm) ==
    IF use_gemini THEN query_gemini(client, prompt, gm)
    ELSE query_friendliai(client, prompt, fr)

\* FriendliaiClient.query_model (and _query_model_sync, the same control flow).
\* fr and gm are the answers of the two providers.
query_model(client, prompt, use_gemini, fr, gm) ==
    LET first == IF use_gemini THEN query_gemini(client, prompt, gm)
                 ELSE query_friendliai(client, prompt, fr)
    IN  IF first.res.ok THEN first
        ELSE LET second == IF use_gemini THEN query_friendliai(client, prompt, fr)
                           ELSE query_gemini(client, prompt, gm)
             IN  [res |-> second.res,
                  calls |-> first.calls \o second.calls,
                  requests |-> first.requests \o second.requests]

(***************************************************************************)
(* Client specification: a FriendliaiClient is constructed from the        *)
(* settings, and query_model is called on a constructed client.            *)
(***************************************************************************)
OptionalKeys(k) == {None, k}

ClientSettings ==
    [FRIENDLIAI_API_KEY : OptionalKeys("fk"),
     FRIENDLIAI_ENDPOINT : {None, "", CUSTOM_ENDPOINT},
     GEMINI_API_KEY : OptionalKeys("gk")]

EndpointAnswers == {"200", "500", "exception"}

Prompts == {"p1", "p2"}

InitClient ==
    /\ settings \in ClientSettings
    /\ endpoint_status \in EndpointAnswers
    /\ store = NoStore
    /\ last = [op |-> "none"]

NewFriendliaiClient ==
    /\ last' = [op |-> "FriendliaiClient", result |-> FriendliaiClient_init(settings)]
    /\ UNCHANGED <<settings, endpoint_status, store>>

QueryModel ==
    LET made == FriendliaiClient_init(settings)
    IN  /\ made.res.ok
        /\ \E prompt \in Prompts, use_gemini \in BOOLEAN,
              fr \in ProviderAnswers, gm \in ProviderAnswers :
              last' = [op |-> "query_model", client |-> made.res.value,
                       prompt |-> prompt, use_gemini |-> use_gemini,
                       fr |-> fr, gm |-> gm,
                       result |-> query_model(made.res.value, prompt, use_gemini, fr, gm)]
        /\ UNCHANGED <<settings, endpoint_status, store>>

NextClient == NewFriendliaiClient \/ QueryModel

SpecClient == InitClient /\ [][NextClient]_vars

(***************************************************************************)
(* extract_text_from_pdf (utils/llamaindex_client.py).  A PDF is whether   *)
(* pdfplumber can open it, and the list of (page.extract_text() or "") of  *)
(* its pages.                                                              *)
(***************************************************************************)
Whitespace == {9, 10, 11, 12, 13, 32}

RECURSIVE LStrip(_)
LStrip(s) == IF s # <<>> /\ Head(s) \in Whitespace THEN LStrip(Tail(s)) ELSE s

RECURSIVE RStrip(_)
RStrip(s) ==
    IF s # <<>> /\ s[Len(s)] \in Whitespace THEN RStrip(SubSeq(s, 1, Len(s) - 1)) ELSE s

\* str.strip()
Strip(s) == RStrip(LStrip(s))

RECURSIVE PagesText(_)
PagesText(pages) ==
    IF pages = <<>> THEN <<>>
    ELSE Head(pages) \o <<NEWLINE>> \o PagesText(Tail(pages))

extract_text_from_pdf(pdf) ==
    IF ~pdf.valid THEN Raise("PDFSyntaxError", "no valid PDF")
    ELSE Ok(Strip(PagesText(pdf.pages)))

(***************************************************************************)
(* WeaviateClient (utils/weaviate_client.py).  The store is the Weaviate   *)
(* instance: whether the PageContext collection exists, and its objects.   *)
(* conn tells whether connecting succeeds.                                 *)
(***************************************************************************)
\* WeaviateClient.init_schema
init_schema(st) ==
    IF st.exists THEN st ELSE [st EXCEPT !.exists = TRUE]

\* WeaviateClient.__init__: connect, then init_schema
WeaviateClient_init(st, conn) ==
    IF conn # "ok"
    THEN [res |-> Raise("RuntimeError", "Failed to connect to Weaviate"), store |-> st]
    ELSE [res |-> Ok("client"), store |-> init_schema(st)]

Uuids(st) == {st.objects[i].uuid : i \in 1..Len(st.objects)}

\* weaviate_client.upsert_doc -> WeaviateClient.upsert_embedding: the insert
\* raises when the store refuses it (insert_ok false, or the uuid is taken)
upsert_doc(doc_id, text, embedding, st, conn, insert_ok) ==
    LET made == WeaviateClient_init(st, conn)
    IN  IF ~made.res.ok THEN made
        ELSE IF ~insert_ok \/ doc_id \in Uuids(made.store)
             THEN [res |-> Raise("WeaviateError", "insert failed"), store |-> made.store]
             ELSE [res |-> Ok(doc_id),
                   store |-> [made.store EXCEPT !.objects =
                                 Append(@, [uuid |-> doc_id, text |-> text,
                                            source |-> doc_id, vector |-> embedding])]]

Reverse(q) == [i \in 1..Len(q) |-> q[Len(q) + 1 - i]]

\* weaviate_client.query_similar -> WeaviateClient.query_similar: the top_k
\* nearest objects; order is the ranking the store gives them
query_similar(embedding, top_k, st, conn, order) ==
    LET made == WeaviateClient_init(st, conn)
    IN  IF ~made.res.ok THEN made
        ELSE LET ranked == IF order = "stored" THEN made.store.objects
                           ELSE Reverse(made.store.objects)
                 hits == SubSeq(ranked, 1, Min(top_k, Len(ranked)))
             IN  [res |-> Ok([i \in 1..Len(hits) |->
                                 [id |-> hits[i].uuid, text |-> hits[i].text,
                                  source |-> hits[i].source, score |-> None]]),
                  store |-> made.store]

(***************************************************************************)
(* LlamaIndexClient construction and query_index.                          *)
(***************************************************************************)
\* LlamaIndexClient.__init__ -> _initialize_embedder
LlamaIndexClient_init(s) ==
    IF "LLAMAINDEX_API_KEY" \notin DOMAIN s
    THEN Raise("AttributeError", "no attribute LLAMAINDEX_API_KEY")
    ELSE IF Truthy(s.LLAMAINDEX_API_KEY) THEN Ok([embedder |-> s.LLAMAINDEX_API_KEY])
    ELSE IF "OPENAI_API_KEY" \notin DOMAIN s
    THEN Raise("AttributeError", "no attribute OPENAI_API_KEY")
    ELSE IF Truthy(s.OPENAI_API_KEY) THEN Ok([embedder |-> s.OPENAI_API_KEY])
    ELSE Raise("ValueError", "OPENAI_API_KEY or LLAMAINDEX_API_KEY is required for embeddings")

\* LlamaIndexClient.query_index
query_index(question, embed_ok) ==
    IF embed_ok THEN Ok(Embedding(question))
    ELSE Raise("EmbeddingError", "embedding request failed")

(***************************************************************************)
(* await.  A call of an "async def" gives a coroutine, which await runs;   *)
(* a call of a plain "def" gives its return value, and awaiting a value    *)
(* that is no awaitable raises TypeError.                                  *)
(***************************************************************************)
build_index_is_async == FALSE
query_index_is_async == FALSE
query_model_is_async == TRUE

AwaitAnything(is_async, result) == result

Await(is_async, result) ==
    IF ~result.ok THEN result
    ELSE IF is_async THEN result
    ELSE Raise("TypeError", "object can't be used in 'await' expression")

(***************************************************************************)
(* The handlers of main.py.  The body of a handler's try block ends in one *)
(* of three ways: it returns a value, it raises an HTTPException, or it    *)
(* raises another exception; the except clauses turn that into the         *)
(* response.                                                               *)
(***************************************************************************)
Return(v) == [kind |-> "return", value |-> v]
HTTPException(code, detail) == [kind |-> "http", status |-> code, detail |-> detail]
Raised(r) == [kind |-> "raise", exc |-> r.exc, msg |-> r.msg]

\* a comparison that keeps the case of the name
LowerKeepsCase(s) == s

\* str.lower
Lower(s) == [i \in 1..Len(s) |-> IF s[i] \in 65..90 THEN s[i] + 32 ELSE s[i]]

EndsWith(s, suffix) ==
    /\ Len(s) >= Len(suffix)
    /\ SubSeq(s, Len(s) - Len(suffix) + 1, Len(s)) = suffix

DOT_PDF == <<46, 112, 100, 102>>

\* str(n) of a natural number: its decimal digits
RECURSIVE Str(_)
Str(n) == IF n < 10 THEN <<48 + n>> ELSE Str(n \div 10) \o <<48 + (n % 10)>>

\* "_chunk_"
CHUNK_INFIX == <<95, 99, 104, 117, 110, 107, 95>>

\* an identifier that leaves the chunk index out
ChunkIdWithoutIndex(document_id, i) == document_id \o CHUNK_INFIX

\* chunk_id = f"{document_id}_chunk_{i}"
ChunkId(document_id, i) == document_id \o CHUNK_INFIX \o Str(i)

\* for i, (chunk, embedding) in enumerate(zip(chunks, embeddings)): upsert_doc
RECURSIVE StoreLoop(_, _, _, _, _, _, _)
StoreLoop(document_id, chunks, embeddings, k, st, conn, bad_inserts) ==
    IF k > Min(Len(chunks), Len(embeddings)) THEN [res |-> Ok(k - 1), store |-> st]
    ELSE LET up == upsert_doc(ChunkId(document_id, k - 1), chunks[k], embeddings[k],
                              st, conn, k \notin bad_inserts)
         IN  IF ~up.res.ok THEN up
             ELSE StoreLoop(document_id, chunks, embeddings, k + 1, up.store,
                            conn, bad_inserts)

\* the try block of upload_pdf
UploadBody(filename, pdf, document_id, bad_embeds, conn, bad_inserts, st) ==
    LET none == [store |-> st, embed_calls |-> 0, tmp_written |-> FALSE,
                 tmp_removed |-> FALSE]
        saved == [none EXCEPT !.tmp_written = TRUE]
    IN  IF ~EndsWith(Lower(filename), DOT_PDF)
        THEN none @@ [outcome |-> HTTPException(400, "Only PDF files are supported")]
        ELSE LET text == extract_text_from_pdf(pdf)
             IN  IF ~text.ok THEN saved @@ [outcome |-> Raised(text)]
                 ELSE IF text.value = <<>>
                 THEN saved @@ [outcome |->
                         HTTPException(400, "No text could be extracted from the PDF")]
                 ELSE
    LET built == build_index(text.value, bad_embeds)
        awaited == Await(build_index_is_async, built)
        embedded == [saved EXCEPT !.embed_calls = built.embed_calls]
    IN  IF ~awaited.ok THEN embedded @@ [outcome |-> Raised(awaited)]
        ELSE
    LET chunks == awaited.value[1]
        embeddings == awaited.value[2]
        stored == StoreLoop(document_id, chunks, embeddings, 1, st, conn, bad_inserts)
    IN  IF ~stored.res.ok
        THEN [embedded EXCEPT !.store = stored.store] @@ [outcome |-> Raised(stored.res)]
        ELSE [embedded EXCEPT !.store = stored.store, !.tmp_removed = TRUE]
                 @@ [outcome |-> Return([status |-> "success",
                                         message |-> <<"File indexed with", Len(chunks)>>,
                                         chunks_created |-> Len(chunks)])]

\* the fields of the response model of POST /upload
UploadResponse == {"status", "message", "chunks_created"}

\* except HTTPException: raise / except Exception: HTTPException(500)
UploadExcept(outcome) ==
    CASE outcome.kind = "return" -> [status |-> 200, body |-> outcome.value]
      [] outcome.kind = "http" -> [status |-> outcome.status, detail |-> outcome.detail]
      [] OTHER -> [status |-> 500, detail |-> <<"Failed to process PDF: ", outcome.msg>>]

\* POST /upload
upload_pdf(filename, pdf, document_id, bad_embeds, conn, bad_inserts, st) ==
    LET body == UploadBody(filename, pdf, document_id, bad_embeds, conn, bad_inserts, st)
    IN  body @@ [response |-> UploadExcept(body.outcome),
                 response_model |-> UploadResponse]

RECURSIVE JoinTexts(_)
\* "\n\n".join([r["text"] for r in context_results])
JoinTexts(results) ==
    IF Len(results) = 0 THEN <<>>
    ELSE IF Len(results) = 1 THEN results[1].text
    ELSE results[1].text \o <<NEWLINE, NEWLINE>> \o JoinTexts(Tail(results))

ELLIPSIS == <<46, 46, 46>>

\* a sources entry that carries the whole text of the chunk
SourceWithoutTruncation(result) ==
    [id |-> result.id, text |-> result.text, relevance_score |-> result.score]

\* one entry of the sources list
Source(result) ==
    [id |-> result.id,
     text |-> IF Len(result.text) > 200 THEN Slice(result.text, 0, 200) \o ELLIPSIS
              ELSE result.text,
     relevance_score |-> result.score]

NO_DOCUMENTS == "No relevant documents found. Please upload some PDF documents first."

\* the try block of ask_question (use_gemini false) and ask_question_gemini (true)
AskBody(question, use_gemini, uuid, embed_ok, conn, order, fr, gm, st, s) ==
    LET none == [store |-> st, calls |-> <<>>, requests |-> <<>>, searched |-> FALSE]
        vector == Await(query_index_is_async, query_index(question, embed_ok))
    IN  IF ~vector.ok THEN none @@ [outcome |-> Raised(vector)]
        ELSE
    LET found == query_similar(vector.value, 3, st, conn, order)
        searched == [none EXCEPT !.store = found.store, !.searched = found.res.ok]
    IN  IF ~found.res.ok THEN searched @@ [outcome |-> Raised(found.res)]
        ELSE IF found.res.value = <<>>
        THEN searched @@ [outcome |-> Return([answer |-> NO_DOCUMENTS,
                                              trace_id |-> uuid, sources |-> <<>>])]
        ELSE
    LET context_results == found.res.value
        prompt == [context |-> JoinTexts(context_results), question |-> question]
        made == FriendliaiClient_init(s)
    IN  IF ~made.res.ok THEN searched @@ [outcome |-> Raised(made.res)]
        ELSE
    LET asked == query_model(made.res.value, prompt, use_gemini, fr, gm)
        answer == Await(query_model_is_async, asked.res)
        called == [searched EXCEPT !.calls = asked.calls, !.requests = asked.requests]
    IN  IF ~answer.ok THEN called @@ [outcome |-> Raised(answer)]
        ELSE called @@ [outcome |-> Return(
                 [answer |-> answer.value, trace_id |-> uuid,
                  sources |-> [i \in 1..Len(context_results) |->
                                  Source(context_results[i])]])]

\* an except clause that lets the exception through to the framework
AskExceptReraises(outcome, prefix) ==
    CASE outcome.kind = "return" -> [status |-> 200, body |-> outcome.value]
      [] OTHER -> [status |-> 500, detail |-> <<"Internal Server Error">>]

\* except Exception as e: raise HTTPException(500, prefix + str(e))
AskExcept(outcome, prefix) ==
    CASE outcome.kind = "return" -> [status |-> 200, body |-> outcome.value]
      [] OTHER -> [status |-> 500, detail |-> <<prefix, outcome.msg>>]

\* POST /ask
ask_question(question, uuid, embed_ok, conn, order, fr, gm, st, s) ==
    LET body == AskBody(question, FALSE, uuid, embed_ok, conn, order, fr, gm, st, s)
    IN  body @@ [response |-> AskExcept(body.outcome, "Failed to process question: ")]

\* POST /ask-gemini
ask_question_gemini(question, uuid, embed_ok, conn, order, fr, gm, st, s) ==
    LET body == AskBody(question, TRUE, uuid, embed_ok, conn, order, fr, gm, st, s)
    IN  body @@ [response |->
                    AskExcept(body.outcome, "Failed to process question with Gemini: ")]

\* dict.get(key, default)
Get(data, key, default) == IF key \in DOMAIN data THEN data[key] ELSE default

\* the parameters of weaviate_client.upsert_doc
UpsertDocParameters == {"doc_id", "text", "embedding"}

\* str(uuid.uuid4()): the k-th identifier drawn in a request
Uuid4(seed, k) == seed \o Str(k)

\* for i, (chunk_text, embedding) in enumerate(zip(chunks, embeddings)):
\*     upsert_doc(chunk_id, chunk_text, embedding, source=url)
RECURSIVE WebStoreLoop(_, _, _, _, _, _, _)
WebStoreLoop(seed, chunks, embeddings, k, st, conn, bad_inserts) ==
    IF k > Min(Len(chunks), Len(embeddings)) THEN [res |-> Ok(k - 1), store |-> st]
    ELSE IF "source" \notin UpsertDocParameters
    THEN [res |-> Raise("TypeError",
                        "upsert_doc() got an unexpected keyword argument 'source'"),
          store |-> st]
    ELSE LET up == upsert_doc(Uuid4(seed, k), chunks[k], embeddings[k],
                              st, conn, k \notin bad_inserts)
         IN  IF ~up.res.ok THEN up
             ELSE WebStoreLoop(seed, chunks, embeddings, k + 1, up.store,
                               conn, bad_inserts)

\* the try block of upload_web
WebBody(data, seed, bad_embeds, conn, bad_inserts, st) ==
    LET text == Get(data, "text", <<>>)
        url == Get(data, "url", "unknown")
        none == [store |-> st, embed_calls |-> 0]
    IN  IF text = <<>>
        THEN none @@ [outcome |-> HTTPException(400, "No text content provided")]
        ELSE
    LET built == build_index(text, bad_embeds)
        awaited == Await(build_index_is_async, built)
        embedded == [none EXCEPT !.embed_calls = built.embed_calls]
    IN  IF ~awaited.ok THEN embedded @@ [outcome |-> Raised(awaited)]
        ELSE
    LET chunks == awaited.value[1]
        embeddings == awaited.value[2]
        stored == WebStoreLoop(seed, chunks, embeddings, 1, st, conn, bad_inserts)
    IN  IF ~stored.res.ok
        THEN [embedded EXCEPT !.store = stored.store] @@ [outcome |-> Raised(stored.res)]
        ELSE [embedded EXCEPT !.store = stored.store]
                 @@ [outcome |-> Return([status |-> "success",
                                         message |-> <<"Webpage indexed with", Len(chunks)>>,
                                         chunks_indexed |-> Len(chunks),
                                         url |-> url])]

\* an except clause that turns every exception into a 500
WebExceptHidesStatus(outcome) ==
    CASE outcome.kind = "return" -> [status |-> 200, body |-> outcome.value]
      [] outcome.kind = "http" ->
            [status |-> 500, detail |-> <<"Failed to process webpage: ", outcome.detail>>]
      [] OTHER -> [status |-> 500, detail |-> <<"Failed to process webpage: ", outcome.msg>>]

\* except HTTPException: raise / except Exception: HTTPException(500)
WebExcept(outcome) ==
    CASE outcome.kind = "return" -> [status |-> 200, body |-> outcome.value]
      [] outcome.kind = "http" -> [status |-> outcome.status, detail |-> outcome.detail]
      [] OTHER -> [status |-> 500, detail |-> <<"Failed to process webpage: ", outcome.msg>>]

\* POST /upload-web
upload_web(data, seed, bad_embeds, conn, bad_inserts, st) ==
    LET body == WebBody(data, seed, bad_embeds, conn, bad_inserts, st)
    IN  body @@ [response |-> WebExcept(body.outcome)]

\* a health check whose Weaviate test lets the exception through to the
\* outer except clause
HealthCheckFails(conn, ready, st) ==
    LET made == WeaviateClient_init(st, conn)
    IN  IF ~made.res.ok
        THEN [store |-> made.store,
              response |-> [status |-> 500,
                            detail |-> <<"Health check failed: ", made.res.msg>>]]
        ELSE IF ready = "raises"
        THEN [store |-> made.store,
              response |-> [status |-> 500,
                            detail |-> <<"Health check failed: ", "readiness check failed">>]]
        ELSE [store |-> made.store,
              response |-> [status |-> 200,
                            body |-> [status |-> "healthy", llamaindex |-> "connected",
                                      weaviate |-> <<"connected">>,
                                      friendliai |-> "connected"]]]

\* GET /health: ready is what client.is_ready() does, its value is not read
health_check(conn, ready, st) ==
    LET made == WeaviateClient_init(st, conn)
        health_status == [status |-> "healthy", llamaindex |-> "connected",
                          weaviate |-> <<"connected">>, friendliai |-> "connected"]
        tested == IF ~made.res.ok
                  THEN [health_status EXCEPT !.weaviate = <<"error: ", made.res.msg>>,
                                             !.status = "degraded"]
                  ELSE IF ready = "raises"
                  THEN [health_status EXCEPT
                            !.weaviate = <<"error: ", "readiness check failed">>,
                            !.status = "degraded"]
                  ELSE health_status
    IN  [store |-> made.store, response |-> [status |-> 200, body |-> tested]]

\* except Exception: HTTPException(500, str(e)) of the document handlers
DocumentsExcept(outcome) ==
    CASE outcome.kind = "return" -> [status |-> 200, body |-> outcome.value]
      [] outcome.kind = "http" -> [status |-> 500, detail |-> outcome.detail]
      [] OTHER -> [status |-> 500, detail |-> outcome.msg]

\* GET /documents
list_documents(st) ==
    LET body == [store |-> st,
                 outcome |-> Return(
                     [message |-> "Document listing not fully implemented yet",
                      note |-> "Documents are stored in Weaviate by chunks"])]
    IN  body @@ [response |-> DocumentsExcept(body.outcome)]

\* the object was made from the document: its uuid is a chunk id of it
MadeFrom(object, document_id) ==
    LET prefix == document_id \o CHUNK_INFIX
    IN  /\ Len(object.uuid) >= Len(prefix)
        /\ SubSeq(object.uuid, 1, Len(prefix)) = prefix

\* a handler that deletes the chunks of the document
DeleteRemovesChunks(document_id, st) ==
    LET body == [store |-> [st EXCEPT !.objects =
                               SelectSeq(@, LAMBDA o : ~MadeFrom(o, document_id))],
                 outcome |-> Return(
                     [message |-> "Document deletion not fully implemented yet",
                      document_id |-> document_id])]
    IN  body @@ [response |-> DocumentsExcept(body.outcome)]

\* DELETE /documents/{document_id}
delete_document(document_id, st) ==
    LET body == [store |-> st,
                 outcome |-> Return(
                     [message |-> "Document deletion not fully implemented yet",
                      document_id |-> document_id])]
    IN  body @@ [response |-> DocumentsExcept(body.outcome)]

(***************************************************************************)
(* Service specification: the handlers of main.py, one request at a time.  *)
(*                                                                         *)
(* The module body of main.py builds settings and LlamaIndexClient(settings)*)
(* before the app exists, so the handlers serve only in a process where    *)
(* that construction succeeded: one whose settings object exposes an       *)
(* embedding key.  The Weaviate instance is external and outlives the      *)
(* process: it starts with any contents.                                   *)
(***************************************************************************)
\* the attributes of the settings object that carry the embedding key: none
\* (the Settings class of main.py declares neither), or both
EmbeddingAttributes ==
    {[LLAMAINDEX_API_KEY |-> None, OPENAI_API_KEY |-> None],
     [LLAMAINDEX_API_KEY |-> None, OPENAI_API_KEY |-> "ok"]}

\* the settings of the service: the endpoint is unset or the dedicated one
ServiceSettings ==
    LET cs == {c \in ClientSettings : c.FRIENDLIAI_ENDPOINT # ""}
    IN  cs \cup {c @@ e : c \in cs, e \in EmbeddingAttributes}

\* the module-level llamaindex_client exists
Started == LlamaIndexClient_init(settings).ok

\* "old": the document the objects stored initially were made from
OLD_DOCUMENT == <<111, 108, 100>>

\* most objects the store holds initially
MaxObjects == 4

\* the k-th object a store holds initially; the texts have 201, 1, 1000 and
\* 200 characters in turn
InitialObject(k) ==
    LET t == Text(<<201, 1, 1000, 200>>[((k - 1) % 4) + 1], "distinct")
    IN  [uuid |-> ChunkId(OLD_DOCUMENT, k), text |-> t,
         source |-> ChunkId(OLD_DOCUMENT, k), vector |-> Embedding(t)]

InitialStores ==
    {NoStore} \cup {[exists |-> TRUE, objects |-> [k \in 1..n |-> InitialObject(k)]] :
                       n \in 0..MaxObjects}

FileNames ==
    {<<97, 46, 112, 100, 102>>,     \* a.pdf
     <<65, 46, 80, 68, 70>>,        \* A.PDF
     <<97, 46, 116, 120, 116>>,     \* a.txt
     <<112, 100, 102>>}             \* pdf

Blank == <<SPACE>>

\* the PDFs uploaded: unreadable, without pages, with a page without text,
\* and with one or two pages of text
Pdfs ==
    {[valid |-> FALSE, pages |-> <<>>]} \cup
    {[valid |-> TRUE, pages |-> pages] : pages \in
        {<<>>, <<Blank>>, <<Text(1, "distinct")>>,
         <<Blank \o Text(CHUNK_SIZE, "distinct") \o Blank>>,
         <<Text(CHUNK_SIZE, "distinct"), Text(CHUNK_SIZE, "uniform")>>}}

\* "u1", "u2"
UUIDs == {<<117, 49>>, <<117, 50>>}

PAGE_URL == "https://example.com/page"

\* the bodies posted to /upload-web: without text, with an empty text, and
\* with a text of one, two or three chunks, the first one without a url
WebData ==
    {[url |-> PAGE_URL], [text |-> <<>>, url |-> PAGE_URL],
     [text |-> Text(1, "distinct")],
     [text |-> Text(CHUNK_SIZE + 1, "distinct"), url |-> PAGE_URL],
     [text |-> Text(2 * CHUNK_SIZE + 1, "uniform"), url |-> PAGE_URL]}

\* client.is_ready(): it returns True or False, or raises
Readiness == {"true", "false", "raises"}

Questions == {<<113>>, <<113, 63>>}

Connections == {"ok", "refused"}

\* the calls of a loop the environment lets fail: none, or the second one
Failing == {{}, {2}}

HandlerAnswers == {"ok", "status_error", "missing_key"}

\* the objects an operation added to the collection
Inserted(before, after) ==
    SubSeq(after.objects, Len(before.objects) + 1, Len(after.objects))

\* what an operation did, without the copy of the store
Effects(done) == [f \in DOMAIN done \ {"store"} |-> done[f]]

Init ==
    /\ settings \in ServiceSettings
    /\ endpoint_status = "200"
    /\ store \in InitialStores
    /\ last = [op |-> "none"]

\* uuid.uuid4() gives an identifier no stored object was made from
FreshUUIDs ==
    {u \in UUIDs : \A i \in 1..Len(store.objects) : ~MadeFrom(store.objects[i], u)}

UploadPdf ==
    /\ Started
    /\ last.op = "none"
    /\ \E filename \in FileNames, pdf \in Pdfs, document_id \in FreshUUIDs,
          bad_embeds \in Failing, conn \in Connections, bad_inserts \in Failing :
          LET done == upload_pdf(filename, pdf, document_id, bad_embeds, conn,
                                 bad_inserts, store)
          IN  /\ last' = [op |-> "upload_pdf", filename |-> filename, pdf |-> pdf,
                          document_id |-> document_id, bad_embeds |-> bad_embeds,
                          conn |-> conn, bad_inserts |-> bad_inserts,
                          inserted |-> Inserted(store, done.store),
                          done |-> Effects(done)]
              /\ store' = done.store
    /\ UNCHANGED <<settings, endpoint_status>>

AskQuestion ==
    /\ Started
    /\ last.op = "none"
    /\ \E question \in Questions, uuid \in UUIDs, embed_ok \in BOOLEAN,
          conn \in Connections, order \in {"stored", "reversed"},
          fr \in HandlerAnswers, gm \in HandlerAnswers :
          LET done == ask_question(question, uuid, embed_ok, conn, order, fr, gm,
                                   store, settings)
          IN  /\ last' = [op |-> "ask_question", question |-> question, uuid |-> uuid,
                          embed_ok |-> embed_ok, conn |-> conn, order |-> order,
                          fr |-> fr, gm |-> gm,
                          inserted |-> Inserted(store, done.store),
                          done |-> Effects(done)]
              /\ store' = done.store
    /\ UNCHANGED <<settings, endpoint_status>>

AskQuestionGemini ==
    /\ Started
    /\ last.op = "none"
    /\ \E question \in Questions, uuid \in UUIDs, embed_ok \in BOOLEAN,
          conn \in Connections, order \in {"stored", "reversed"},
          fr \in HandlerAnswers, gm \in HandlerAnswers :
          LET done == ask_question_gemini(question, uuid, embed_ok, conn, order, fr, gm,
                                          store, settings)
          IN  /\ last' = [op |-> "ask_question_gemini", question |-> question,
                          uuid |-> uuid, embed_ok |-> embed_ok, conn |-> conn,
                          order |-> order, fr |-> fr, gm |-> gm,
                          inserted |-> Inserted(store, done.store),
                          done |-> Effects(done)]
              /\ store' = done.store
    /\ UNCHANGED <<settings, endpoint_status>>

UploadWeb ==
    /\ Started
    /\ last.op = "none"
    /\ \E data \in WebData, seed \in UUIDs, bad_embeds \in Failing,
          conn \in Connections, bad_inserts \in Failing :
          LET done == upload_web(data, seed, bad_embeds, conn, bad_inserts, store)
          IN  /\ last' = [op |-> "upload_web", data |-> data, seed |-> seed,
                          bad_embeds |-> bad_embeds, conn |-> conn,
                          bad_inserts |-> bad_inserts,
                          inserted |-> Inserted(store, done.store),
                          done |-> Effects(done)]
              /\ store' = done.store
    /\ UNCHANGED <<settings, endpoint_status>>

ListDocuments ==
    /\ Started
    /\ last.op = "none"
    /\ LET done == list_documents(store)
       IN  /\ last' = [op |-> "list_documents",
                       inserted |-> Inserted(store, done.store),
                       done |-> Effects(done)]
           /\ store' = done.store
    /\ UNCHANGED <<settings, endpoint_status>>

DeleteDocument ==
    /\ Started
    /\ last.op = "none"
    /\ \E document_id \in UUIDs \cup {OLD_DOCUMENT} :
          LET done == delete_document(document_id, store)
          IN  /\ last' = [op |-> "delete_document", document_id |-> document_id,
                          inserted |-> Inserted(store, done.store),
                          done |-> Effects(done)]
              /\ store' = done.store
    /\ UNCHANGED <<settings, endpoint_status>>

HealthCheck ==
    /\ Started
    /\ last.op = "none"
    /\ \E conn \in Connections, ready \in Readiness :
          LET done == health_check(conn, ready, store)
          IN  /\ last' = [op |-> "health_check", conn |-> conn, ready |-> ready,
                          inserted |-> Inserted(store, done.store),
                          done |-> Effects(done)]
              /\ store' = done.store
    /\ UNCHANGED <<settings, endpoint_status>>

\* the response has been sent: the request is over
Respond ==
    /\ last.op # "none"
    /\ last' = [op |-> "none"]
    /\ UNCHANGED <<settings, endpoint_status, store>>

Next == UploadPdf \/ AskQuestion \/ AskQuestionGemini \/ UploadWeb
           \/ ListDocuments \/ DeleteDocument \/ HealthCheck \/ Respond

Spec == Init /\ [][Next]_vars

RECURSIVE Concat(_)
Concat(ss) == IF ss = <<>> THEN <<>> ELSE Head(ss) \o Concat(Tail(ss))

CeilDiv(n, d) == (n + d - 1) \div d

(***************************************************************************)
(* Endpoint resolution of the completion client (C1 - C3).                 *)
(***************************************************************************)
Constructed == last.op = "FriendliaiClient" /\ last.result.res.ok

\* C1: constructed with a non-empty FRIENDLIAI_ENDPOINT that answers the
\* probe with 200, the client's friendliai_base_url is that endpoint.
C1_DedicatedEndpointUsed ==
    (/\ Constructed
     /\ Truthy(settings.FRIENDLIAI_ENDPOINT)
     /\ endpoint_status = "200")
        => last.result.res.value.friendliai_base_url = settings.FRIENDLIAI_ENDPOINT

\* C2: constructed with a non-empty FRIENDLIAI_ENDPOINT whose probe answers
\* non-200 or raises, construction succeeds (whenever the API key is set,
\* as without an endpoint) and friendliai_base_url is the default URL.
C2_FallbackToDefault ==
    (/\ last.op = "FriendliaiClient"
     /\ Truthy(settings.FRIENDLIAI_ENDPOINT)
     /\ endpoint_status # "200")
        => /\ last.result.res.ok <=> Truthy(settings.FRIENDLIAI_API_KEY)
           /\ last.result.res.ok
                => last.result.res.value.friendliai_base_url = "https://api.friendli.ai"

\* a client was built while the configured endpoint raises on the probe
C2_Witness ==
    /\ Constructed
    /\ settings.FRIENDLIAI_ENDPOINT = CUSTOM_ENDPOINT
    /\ endpoint_status = "exception"

\* C3: with FRIENDLIAI_ENDPOINT unset or empty the client uses the default
\* base URL and sends no probe request.
C3_NoEndpointNoProbe ==
    (/\ last.op = "FriendliaiClient"
     /\ ~Truthy(settings.FRIENDLIAI_ENDPOINT))
        => /\ last.result.probes = <<>>
           /\ last.result.res.ok
                => last.result.res.value.friendliai_base_url = "https://api.friendli.ai"

\* a client was built from settings whose endpoint is the empty string,
\* while the environment would answer a probe with 200
C3_Witness ==
    /\ Constructed
    /\ settings.FRIENDLIAI_ENDPOINT = ""
    /\ endpoint_status = "200"

(***************************************************************************)
(* The handlers (C4 - C7).                                                 *)
(***************************************************************************)
Response == last.done.response

\* C4: POST /upload of a .pdf file with non-empty extracted text, every
\* embedding call and every insert succeeding, answers 200 with status
\* "success" and chunks_created = the number of records written.
C4_UploadSucceeds ==
    (/\ last.op = "upload_pdf"
     /\ EndsWith(last.filename, DOT_PDF)
     /\ extract_text_from_pdf(last.pdf).ok
     /\ extract_text_from_pdf(last.pdf).value # <<>>
     /\ last.bad_embeds = {} /\ last.conn = "ok" /\ last.bad_inserts = {})
        => /\ Response.status = 200
           /\ Response.body.status = "success"
           /\ Response.body.chunks_created = Len(last.inserted)

\* what the vector search of the request gives when it is made
Retrieved ==
    query_similar(Embedding(last.question), 3, store, last.conn, last.order).res.value

\* C5: POST /ask, the query embedding succeeding, the store returning at
\* least one chunk and the completion model answering, answers 200 with
\* the model's output, a trace_id and one source per retrieved chunk in
\* retrieval order.
C5_AskSucceeds ==
    (/\ last.op = "ask_question"
     /\ last.embed_ok /\ last.conn = "ok" /\ Len(store.objects) > 0
     /\ Truthy(settings.FRIENDLIAI_API_KEY) /\ last.fr = "ok")
        => /\ Response.status = 200
           /\ Response.body.answer[1] = "friendliai"
           /\ Response.body.answer[2].question = last.question
           /\ Response.body.trace_id = last.uuid
           /\ Len(Response.body.sources) = Len(Retrieved)
           /\ \A i \in 1..Len(Retrieved) :
                 Response.body.sources[i].id = Retrieved[i].id

\* C6: a 200 response of POST /upload carries a non-empty document_id:
\* the response model has the field, and a 200 body has a value for it.
C6_UploadCarriesDocumentId ==
    last.op = "upload_pdf" =>
        /\ "document_id" \in last.done.response_model
        /\ Response.status = 200 =>
              /\ "document_id" \in DOMAIN Response.body
              /\ Response.body.document_id # ""

AskOps == {"ask_question", "ask_question_gemini"}

AskPrefix ==
    IF last.op = "ask_question" THEN "Failed to process question: "
    ELSE "Failed to process question with Gemini: "

\* C7: in POST /ask and POST /ask-gemini an exception raised at any step
\* becomes a 500 response whose detail carries the error message; no 200
\* response is produced for such a request.
C7_AskErrorsBecome500 ==
    last.op \in AskOps =>
        /\ Response.status \in {200, 500}
        /\ last.done.outcome.kind = "raise"
              => Response = [status |-> 500,
                             detail |-> <<AskPrefix, last.done.outcome.msg>>]
        /\ Response.status = 200 => last.done.outcome.kind = "return"
        /\ ~last.embed_ok
              => Response = [status |-> 500,
                             detail |-> <<AskPrefix, "embedding request failed">>]

\* the embedding of the question failed in POST /ask-gemini, which answered 500
C7_Witness ==
    /\ last.op = "ask_question_gemini"
    /\ ~last.embed_ok
    /\ last.done.outcome.kind = "raise"
    /\ Response.status = 500

\* the chunks a finished build_index returned
ReturnedChunks == last.result.value[1]

\* C8: the chunks build_index returns are consecutive slices of the text:
\* concatenated in order they give back exactly the text.
C8_ChunksConcatToText ==
    (last.op = "build_index" /\ last.result.ok)
        => Concat(ReturnedChunks) = last.text

\* a text of two full chunks and a partial third one has been chunked
C8_Witness ==
    /\ last.op = "build_index" /\ last.result.ok
    /\ Len(last.text) = 2 * CHUNK_SIZE + 1
    /\ Len(ReturnedChunks) = 3
    /\ last.text[1] # last.text[2]

\* C9: a text of n characters gives ceil(n/1000) chunks, all of 1000
\* characters but the last, which has 1..1000; no chunk is empty and the
\* empty text gives no chunk.
C9_ChunkCountAndSizes ==
    (last.op = "build_index" /\ last.result.ok) =>
        LET cs == ReturnedChunks
            n == Len(last.text)
        IN  /\ Len(cs) = CeilDiv(n, 1000)
            /\ \A k \in 1..Len(cs) - 1 : Len(cs[k]) = 1000
            /\ Len(cs) > 0 => Len(cs[Len(cs)]) \in 1..1000
            /\ \A k \in 1..Len(cs) : cs[k] # <<>>
            /\ n = 0 => cs = <<>>

\* a text whose length is a positive multiple of the chunk width was chunked
C9_Witness ==
    /\ last.op = "build_index" /\ last.result.ok
    /\ Len(last.text) = 2 * CHUNK_SIZE
    /\ Len(ReturnedChunks) = 2

(***************************************************************************)
(* Provider fallback of query_model (C10).                                 *)
(***************************************************************************)
Selected(use_gemini) == IF use_gemini THEN "gemini" ELSE "friendliai"
Other(use_gemini) == IF use_gemini THEN "friendliai" ELSE "gemini"

\* what one provider alone gives for the call's prompt
Alone(provider) ==
    IF provider = "gemini" THEN query_gemini(last.client, last.prompt, last.gm).res
    ELSE query_friendliai(last.client, last.prompt, last.fr).res

\* C10: when the selected provider raises, the other one is called with the
\* same prompt and its outcome is the outcome of query_model; when the
\* selected provider succeeds, the other one is never called.
C10_FallbackToOtherModel ==
    last.op = "query_model" =>
        LET sel == Selected(last.use_gemini)
            oth == Other(last.use_gemini)
            r == last.result
        IN  IF Alone(sel).ok
            THEN /\ r.calls = <<[provider |-> sel, prompt |-> last.prompt]>>
                 /\ r.res = Alone(sel)
            ELSE /\ r.calls = <<[provider |-> sel, prompt |-> last.prompt],
                                [provider |-> oth, prompt |-> last.prompt]>>
                 /\ r.res = Alone(oth)

\* Friendliai was selected and failed, Gemini answered the same prompt
C10_Witness ==
    /\ last.op = "query_model"
    /\ ~last.use_gemini
    /\ last.fr = "status_error"
    /\ Len(last.result.calls) = 2
    /\ last.result.res.ok
    /\ last.result.res.value = Content("gemini", last.prompt)

(***************************************************************************)
(* Rejected uploads (C11).                                                 *)
(***************************************************************************)
\* the name ends in ".pdf" in any mix of upper and lower case
IsPdfName(name) ==
    LET n == Len(name)
    IN  /\ n >= 4
        /\ name[n - 3] = 46
        /\ name[n - 2] \in {112, 80}
        /\ name[n - 1] \in {100, 68}
        /\ name[n] \in {102, 70}

RejectedAsNotPdf == [status |-> 400, detail |-> "Only PDF files are supported"]

\* C11: POST /upload with a file name that does not end in ".pdf", compared
\* without regard to case, answers 400 "Only PDF files are supported" and has
\* no effect: no temporary file is written, no embedding is requested and
\* the store is left as it was; a name that does end in ".pdf" in any case
\* is not rejected that way.
C11_NonPdfRejected ==
    [][last'.op = "upload_pdf" =>
          IF IsPdfName(last'.filename)
          THEN last'.done.response # RejectedAsNotPdf
          ELSE /\ last'.done.response = RejectedAsNotPdf
               /\ ~last'.done.tmp_written
               /\ last'.done.embed_calls = 0
               /\ last'.inserted = <<>>
               /\ store' = store]_vars

\* a file named a.txt was uploaded to a store that holds objects, with a
\* PDF body that has text
C11_Witness ==
    /\ last.op = "upload_pdf"
    /\ last.filename = <<97, 46, 116, 120, 116>>
    /\ last.pdf.valid /\ Len(last.pdf.pages) = 2
    /\ last.conn = "ok"
    /\ Len(store.objects) > 0
    /\ Response.status = 400

(***************************************************************************)
(* POST /upload-web (C12, C13).                                            *)
(***************************************************************************)
WebText == Get(last.data, "text", <<>>)

\* C12: POST /upload-web with a non-empty text, every embedding call and
\* every insert succeeding, stores one record per chunk of the text, each
\* with the request's url as its source, and answers 200 with status
\* "success", chunks_indexed = the number of records stored, and the url.
C12_WebUploadSucceeds ==
    (/\ last.op = "upload_web"
     /\ WebText # <<>>
     /\ last.bad_embeds = {} /\ last.conn = "ok" /\ last.bad_inserts = {})
        => /\ Len(last.inserted) = Len(Chunks(WebText))
           /\ \A k \in 1..Len(last.inserted) :
                 /\ last.inserted[k].text = Chunks(WebText)[k]
                 /\ last.inserted[k].source = Get(last.data, "url", "unknown")
           /\ Response.status = 200
           /\ Response.body.status = "success"
           /\ Response.body.chunks_indexed = Len(last.inserted)
           /\ Response.body.url = Get(last.data, "url", "unknown")

\* C13: POST /upload-web with a missing or empty text answers 400
\* "No text content provided", not 500, requests no embedding and leaves
\* the store as it was.
C13_WebUploadWithoutText ==
    [][(last'.op = "upload_web" /\ Get(last'.data, "text", <<>>) = <<>>)
          => /\ last'.done.response =
                   [status |-> 400, detail |-> "No text content provided"]
             /\ last'.done.embed_calls = 0
             /\ last'.inserted = <<>>
             /\ store' = store]_vars

\* a body without a text field was posted to a store that holds objects
C13_Witness ==
    /\ last.op = "upload_web"
    /\ "text" \notin DOMAIN last.data
    /\ last.conn = "ok"
    /\ Len(store.objects) > 0
    /\ Response.status = 400

(***************************************************************************)
(* Failures during an upload (C14).                                        *)
(***************************************************************************)
UploadOps == {"upload_pdf", "upload_web"}

\* the request got as far as build_index
ReachedPipeline ==
    IF last.op = "upload_pdf"
    THEN /\ IsPdfName(last.filename)
         /\ extract_text_from_pdf(last.pdf).ok
         /\ extract_text_from_pdf(last.pdf).value # <<>>
    ELSE WebText # <<>>

UploadedText ==
    IF last.op = "upload_pdf" THEN extract_text_from_pdf(last.pdf).value ELSE WebText

\* the first of the n calls of a loop that fails, 0 when none does
FirstFailing(bad, n) ==
    LET failing == bad \cap (1..n)
    IN  IF failing = {} THEN 0
        ELSE CHOOSE i \in failing : \A j \in failing : i <= j

\* C14: a failure at any step aborts the whole upload of POST /upload and
\* POST /upload-web: when embedding chunk i fails, i embedding requests were
\* made and nothing was stored; when storing chunk i fails, fewer than i
\* records were stored; in both cases, and whenever the try block raised,
\* the response is an error and never the "success" body.
C14_FailureAbortsUpload ==
    (last.op \in UploadOps /\ ReachedPipeline) =>
        LET n == Len(Chunks(UploadedText))
            e == FirstFailing(last.bad_embeds, n)
            w == FirstFailing(last.bad_inserts, n)
        IN  /\ e > 0 => /\ last.done.embed_calls = e
                         /\ last.inserted = <<>>
            /\ (e = 0 /\ w > 0) => Len(last.inserted) < w
            /\ (e > 0 \/ w > 0 \/ last.done.outcome.kind # "return")
                  => /\ Response.status = 500
                     /\ "body" \notin DOMAIN Response

\* the second of the three chunks of a web page failed to embed
C14_Witness ==
    /\ last.op = "upload_web"
    /\ Len(Chunks(WebText)) = 3
    /\ last.bad_embeds = {2}
    /\ last.done.embed_calls = 2
    /\ Response.status = 500

(***************************************************************************)
(* The document handlers (C15).                                            *)
(***************************************************************************)
\* C15: GET /documents and DELETE /documents/{id} are stubs: each answers
\* 200 with its fixed not-implemented message, DELETE echoing the
\* document_id of the path, and leaves the store as it was.
C15_DocumentStubs ==
    [][/\ last'.op = "list_documents" =>
             /\ last'.done.response =
                   [status |-> 200,
                    body |-> [message |-> "Document listing not fully implemented yet",
                              note |-> "Documents are stored in Weaviate by chunks"]]
             /\ store' = store
       /\ last'.op = "delete_document" =>
             /\ last'.done.response =
                   [status |-> 200,
                    body |-> [message |-> "Document deletion not fully implemented yet",
                              document_id |-> last'.document_id]]
             /\ store' = store]_vars

\* the deletion of a document whose chunks the store holds was requested
C15_Witness ==
    /\ last.op = "delete_document"
    /\ last.document_id = OLD_DOCUMENT
    /\ \E i \in 1..Len(store.objects) : MadeFrom(store.objects[i], OLD_DOCUMENT)
    /\ Response.status = 200

(***************************************************************************)
(* GET /health (C16).                                                      *)
(***************************************************************************)
\* C16: GET /health always answers 200, never 500: its status is "healthy"
\* exactly when connecting to Weaviate and calling is_ready raise no
\* exception, and otherwise "degraded" with the weaviate field
\* "error: <message>".
C16_HealthAlways200 ==
    last.op = "health_check" =>
        LET raised == last.conn # "ok" \/ last.ready = "raises"
        IN  /\ Response.status = 200
            /\ Response.body.status = "healthy" <=> ~raised
            /\ Response.body.status = "degraded" <=> raised
            /\ raised <=> Response.body.weaviate[1] = "error: "
            /\ raised => /\ Len(Response.body.weaviate) = 2
                          /\ Response.body.weaviate[2] =
                                IF last.conn # "ok" THEN "Failed to connect to Weaviate"
                                ELSE "readiness check failed"

\* Weaviate refused the connection during a health check
C16_Witness ==
    /\ last.op = "health_check"
    /\ last.conn = "refused"
    /\ Response.status = 200
    /\ Response.body.status = "degraded"

(***************************************************************************)
(* The completion requests (C17, C18).                                     *)
(***************************************************************************)
\* C17: POST /ask-gemini uses Gemini as the reasoning model: when the
\* request gets to the completion step (the question was embedded, the
\* store returned chunks, the client could be built), its first completion
\* request goes to Gemini, and a request goes to Friendliai only after a
\* request to Gemini that failed.
C17_GeminiFirst ==
    (/\ last.op = "ask_question_gemini"
     /\ last.embed_ok /\ last.conn = "ok" /\ Len(store.objects) > 0
     /\ Truthy(settings.FRIENDLIAI_API_KEY))
        => LET requests == last.done.requests
           IN  /\ requests # <<>>
               /\ requests[1].to = "gemini"
               /\ \A k \in 1..Len(requests) :
                     requests[k].to = "friendliai"
                        => /\ k > 1
                           /\ requests[k - 1].to = "gemini"
                           /\ last.gm # "ok"

\* the completion requests one query_model call sent to a provider
RequestsTo(provider) ==
    SelectSeq(last.result.requests, LAMBDA r : r.to = provider)

CallsOf(provider) ==
    SelectSeq(last.result.calls, LAMBDA c : c.provider = provider)

\* C18: there is no retry: within one query_model call each provider is
\* called and contacted at most once, so at most two completion requests
\* are made, and the call ends with a result or with an exception.
C18_NoRetry ==
    last.op = "query_model" =>
        /\ \A provider \in {"friendliai", "gemini"} :
              /\ Len(RequestsTo(provider)) <= 1
              /\ Len(CallsOf(provider)) <= 1
        /\ Len(last.result.requests) <= 2
        /\ Len(last.result.calls) <= 2
        /\ last.result.res.ok <=> last.result.res.exc = None

\* both providers were contacted once and both failed: the call raised
C18_Witness ==
    /\ last.op = "query_model"
    /\ Len(RequestsTo("friendliai")) = 1
    /\ Len(RequestsTo("gemini")) = 1
    /\ ~last.result.res.ok

(***************************************************************************)
(* extract_and_store_pdf (utils/llamaindex_client.py): the chunks of a PDF *)
(* are embedded and stored one after the other under the identifiers       *)
(* "<document_id>_chunk_<i>"; the document id is the caller's.             *)
(***************************************************************************)
\* for i, chunk in enumerate(chunks): get_text_embedding, upsert_doc
RECURSIVE EmbedAndStoreLoop(_, _, _, _, _, _, _)
EmbedAndStoreLoop(document_id, chunks, k, bad_embeds, st, conn, bad_inserts) ==
    IF k > Len(chunks)
    THEN [res |-> Ok(Len(chunks)), store |-> st, embed_calls |-> k - 1]
    ELSE IF k \in bad_embeds
    THEN [res |-> Raise("EmbeddingError", "embedding request failed"),
          store |-> st, embed_calls |-> k]
    ELSE LET up == upsert_doc(ChunkId(document_id, k - 1), chunks[k],
                              Embedding(chunks[k]), st, conn, k \notin bad_inserts)
         IN  IF ~up.res.ok THEN up @@ [embed_calls |-> k]
             ELSE EmbedAndStoreLoop(document_id, chunks, k + 1, bad_embeds,
                                    up.store, conn, bad_inserts)

extract_and_store_pdf(pdf, document_id, bad_embeds, conn, bad_inserts, st, s) ==
    LET text == extract_text_from_pdf(pdf)
        key == LlamaIndexClient_init(s)
        none == [store |-> st, embed_calls |-> 0]
    IN  IF ~text.ok THEN [res |-> text] @@ none
        ELSE IF text.value = <<>>
        THEN [res |-> Raise("Exception", "No text could be extracted from the PDF")]
                 @@ none
        ELSE IF ~key.ok THEN [res |-> key] @@ none
        ELSE EmbedAndStoreLoop(document_id, Chunks(text.value), 1, bad_embeds, st,
                               conn, bad_inserts)

\* the settings of a process that stores PDFs: without the embedding
\* attributes, with them unset, and with a key
StoreSettings ==
    {s \in ServiceSettings :
        /\ s.FRIENDLIAI_API_KEY = "fk"
        /\ s.GEMINI_API_KEY = None
        /\ s.FRIENDLIAI_ENDPOINT = None}

\* the document ids a caller passes: "u1", "u2", and "u1_chunk_0", which
\* is itself a chunk id of "u1"
DocumentIds == UUIDs \cup {ChunkId(<<117, 49>>, 0)}

\* most calls of extract_and_store_pdf in a behaviour
MaxUploads == 2

InitStore ==
    /\ settings \in StoreSettings
    /\ endpoint_status = "200"
    /\ store \in {NoStore, [exists |-> TRUE, objects |-> <<>>]}
    /\ last = [op |-> "none", uploaded |-> <<>>]

ExtractAndStorePdf ==
    /\ Len(last.uploaded) < MaxUploads
    /\ \E pdf \in Pdfs, document_id \in DocumentIds, bad_embeds \in Failing,
          conn \in Connections, bad_inserts \in Failing :
          LET done == extract_and_store_pdf(pdf, document_id, bad_embeds, conn,
                                            bad_inserts, store, settings)
          IN  /\ last' = [op |-> "extract_and_store_pdf", pdf |-> pdf,
                          document_id |-> document_id, bad_embeds |-> bad_embeds,
                          conn |-> conn, bad_inserts |-> bad_inserts,
                          earlier |-> last.uploaded,
                          uploaded |-> Append(last.uploaded, document_id),
                          inserted |-> Inserted(store, done.store),
                          done |-> Effects(done)]
              /\ store' = done.store
    /\ UNCHANGED <<settings, endpoint_status>>

NextStore == ExtractAndStorePdf

SpecStore == InitStore /\ [][NextStore]_vars

(***************************************************************************)
(* Chunk identifiers (C19).                                                *)
(***************************************************************************)
\* largest chunk index the identifiers are compared for
MaxChunkIndex == 11

\* the identifiers of the chunks of a document
ChunkIds(document_id) == {ChunkId(document_id, i) : i \in 0..MaxChunkIndex}

\* the text was extracted, the key is set, and no embedding request, no
\* connection and no insert is made to fail
NothingFails ==
    /\ extract_text_from_pdf(last.pdf).ok
    /\ extract_text_from_pdf(last.pdf).value # <<>>
    /\ Started
    /\ last.bad_embeds \cap (1..Len(Chunks(extract_text_from_pdf(last.pdf).value))) = {}
    /\ last.bad_inserts \cap (1..Len(Chunks(extract_text_from_pdf(last.pdf).value))) = {}
    /\ last.conn = "ok"

\* C19: the chunk identifiers "<document_id>_chunk_<i>" never collide: the
\* ids of one document are pairwise distinct and ids of documents with
\* different document ids are distinct, so storing a document under an id
\* not used before stores every chunk; the service makes no duplicate
\* check of its own: with an id used before it embeds the first chunk and
\* attempts the insert, which the store refuses.
C19_ChunkIdsNeverCollide ==
    last.op = "extract_and_store_pdf" =>
        LET d == last.document_id
            earlier == {last.earlier[k] : k \in 1..Len(last.earlier)}
        IN  /\ \A i, j \in 0..MaxChunkIndex :
                  i # j => ChunkId(d, i) # ChunkId(d, j)
            /\ \A e \in earlier : e # d => ChunkIds(e) \cap ChunkIds(d) = {}
            /\ (NothingFails /\ d \notin earlier) =>
                  /\ last.done.res.ok
                  /\ Len(last.inserted) =
                        Len(Chunks(extract_text_from_pdf(last.pdf).value))
                  /\ \A k \in 1..Len(last.inserted) :
                        last.inserted[k].uuid = ChunkId(d, k - 1)
            /\ (NothingFails /\ last.inserted = <<>>) =>
                  /\ ChunkId(d, 0) \in Uuids(store)
                  /\ last.done.embed_calls = 1
                  /\ last.done.res.exc = "WeaviateError"

\* after the three chunks of document "u1", the three chunks of the
\* document "u1_chunk_0" were stored
C19_Witness ==
    /\ last.op = "extract_and_store_pdf"
    /\ last.earlier = <<<<117, 49>>>>
    /\ last.document_id = ChunkId(<<117, 49>>, 0)
    /\ Len(last.inserted) = 3
    /\ Len(store.objects) = 6
    /\ last.done.res.ok

\* a document id was used a second time and the store refused the insert
C19_DuplicateRefused ==
    /\ last.op = "extract_and_store_pdf"
    /\ NothingFails
    /\ last.document_id \in {last.earlier[k] : k \in 1..Len(last.earlier)}
    /\ last.done.res.exc = "WeaviateError"

(***************************************************************************)
(* Start of the service: the module body of main.py reads the environment  *)
(* into the settings and constructs the LlamaIndex client (C20).           *)
(***************************************************************************)
\* the fields class Settings declares, those the model reads; an
\* environment variable that is no field is ignored (extra="ignore")
SettingsFields == {"FRIENDLIAI_API_KEY", "FRIENDLIAI_ENDPOINT", "GEMINI_API_KEY"}

\* settings = Settings(): every field from the environment, or its default
Settings(environ) == [f \in SettingsFields |-> Get(environ, f, None)]

EnvironmentNames == SettingsFields \cup {"OPENAI_API_KEY", "LLAMAINDEX_API_KEY"}

\* the environments: each variable is unset, empty or has a value
Environments ==
    UNION {[names -> {"", "value"}] : names \in SUBSET EnvironmentNames}

InitStart ==
    /\ settings = NoSettings
    /\ endpoint_status = "200"
    /\ store = NoStore
    /\ \E environ \in Environments : last = [op |-> "environ", environ |-> environ]

\* settings = Settings(); llamaindex_client = LlamaIndexClient(settings)
Startup ==
    /\ last.op = "environ"
    /\ settings' = Settings(last.environ)
    /\ last' = [op |-> "startup", environ |-> last.environ,
                llamaindex_client |-> LlamaIndexClient_init(Settings(last.environ))]
    /\ UNCHANGED <<endpoint_status, store>>

NextStart == Startup

SpecStart == InitStart /\ [][NextStart]_vars

\* the environment variable is set to a non-empty value
InEnvironment(name) == Truthy(Get(last.environ, name, None))

\* C20: with OPENAI_API_KEY or LLAMAINDEX_API_KEY in the environment the
\* settings expose that key and LlamaIndexClient(settings) is constructed
\* with its embedder set; with neither key set the construction raises.
C20_StartsWithEmbeddingKey ==
    last.op = "startup" =>
        /\ \A name \in {"OPENAI_API_KEY", "LLAMAINDEX_API_KEY"} :
              InEnvironment(name) =>
                  /\ name \in DOMAIN settings
                  /\ settings[name] = last.environ[name]
        /\ (InEnvironment("OPENAI_API_KEY") \/ InEnvironment("LLAMAINDEX_API_KEY"))
              => /\ last.llamaindex_client.ok
                 /\ last.llamaindex_client.value.embedder # None
        /\ (~InEnvironment("OPENAI_API_KEY") /\ ~InEnvironment("LLAMAINDEX_API_KEY"))
              => ~last.llamaindex_client.ok

(***************************************************************************)
(* Questions the store has nothing for (C21).                              *)
(***************************************************************************)
\* C21: when the vector search of POST /ask or POST /ask-gemini returns no
\* chunk (the question is embedded and the store, reachable, holds no
\* object), the handler answers 200 with the fixed answer, an empty sources
\* list and a trace_id, and no completion provider is contacted.
C21_NothingFound ==
    (/\ last.op \in AskOps
     /\ last.embed_ok /\ last.conn = "ok" /\ Len(store.objects) = 0)
        => /\ last.done.requests = <<>>
           /\ last.done.calls = <<>>
           /\ Response.status = 200
           /\ Response.body.answer = NO_DOCUMENTS
           /\ Response.body.sources = <<>>
           /\ Response.body.trace_id = last.uuid

(***************************************************************************)
(* The embeddings of build_index (C22).                                    *)
(***************************************************************************)
\* C22: when build_index returns it returns one embedding per chunk, in
\* chunk order, each computed from its chunk; it returns exactly when no
\* embedding request fails, and when one fails it raises and gives no
\* partial result.
C22_OneEmbeddingPerChunk ==
    last.op = "build_index" =>
        LET failing == last.bad \cap (1..Len(Chunks(last.text)))
        IN  /\ last.result.ok <=> failing = {}
            /\ last.result.ok =>
                  LET chunks == last.result.value[1]
                      embeddings == last.result.value[2]
                  IN  /\ Len(embeddings) = Len(chunks)
                      /\ \A i \in 1..Len(chunks) : embeddings[i] = Embedding(chunks[i])
            /\ ~last.result.ok =>
                  /\ last.result.value = None
                  /\ last.result.exc = "EmbeddingError"

\* three chunks that begin differently were embedded
C22_Witness ==
    /\ last.op = "build_index" /\ last.result.ok
    /\ Len(last.result.value[2]) = 3
    /\ last.result.value[2][1] # last.result.value[2][2]
    /\ last.result.value[2][2] # last.result.value[2][3]

\* the embedding of the second of three chunks failed
C22_FailureRaises ==
    /\ last.op = "build_index" /\ ~last.result.ok
    /\ Len(Chunks(last.text)) = 3
    /\ last.bad = {2}

(***************************************************************************)
(* Schema initialisation, step by step (utils/weaviate_client.py).  Every  *)
(* request that touches the store constructs a WeaviateClient, whose       *)
(* __init__ connects and runs init_schema: one exists request, then at     *)
(* most one create request.  The handlers of one server process are        *)
(* coroutines of one event loop and call __init__ without an await between *)
(* its steps: while one initialisation is under way no other request of    *)
(* that process runs.  Requests served by two processes (two instances of  *)
(* the service, or the service and a script, on one Weaviate) share only   *)
(* the store, and their steps interleave freely.                           *)
(***************************************************************************)
\* the requests that initialise a client
Requests == {1, 2}

\* most initialisations one of them makes
MaxRuns == 2

\* client.collections.exists("PageContext")
collections_exists(st) == st.exists

\* client.collections.create(name="PageContext", ...): duplicate is what
\* the store does with a name it already has
collections_create(st, duplicate) ==
    IF st.exists
    THEN IF duplicate = "rejected"
         THEN [res |-> Raise("UnexpectedStatusCodeError", "class already exists"),
               store |-> st]
         ELSE [res |-> Ok("PageContext"), store |-> st]
    ELSE [res |-> Ok("PageContext"), store |-> [st EXCEPT !.exists = TRUE]]

\* an init_schema that creates the collection without looking
AlwaysCreates(seen) == TRUE

\* if self.client.collections.exists("PageContext"): return
NeedsCreate(seen) == ~seen

\* the __init__ of the request is under way
MidInit(pc) == pc \in {"connected", "checked"}

\* another request is inside __init__
Overlaps(p) == \E q \in Requests \ {p} : MidInit(last.pc[q])

\* the event loop lets request p run: when the requests share one loop, no
\* other request is inside __init__
EventLoopFree(p) == last.shared_loop => ~Overlaps(p)

SchemaStores ==
    {NoStore, [exists |-> TRUE, objects |-> <<>>],
     [exists |-> TRUE, objects |-> <<InitialObject(2)>>]}

InitRequests ==
    /\ settings = NoSettings
    /\ endpoint_status = "200"
    /\ store \in SchemaStores
    /\ \E shared_loop \in BOOLEAN :
          last = [op |-> "WeaviateClient", shared_loop |-> shared_loop,
                  pc |-> [p \in Requests |-> "idle"],
                  seen |-> [p \in Requests |-> FALSE],
                  runs |-> [p \in Requests |-> 0],
                  exists_requests |-> 0, create_requests |-> 0,
                  overlapped |-> FALSE, initial |-> store]

\* weaviate.connect_to_local / connect_to_weaviate_cloud
Connect(p) ==
    /\ ~MidInit(last.pc[p])
    /\ last.runs[p] < MaxRuns
    /\ EventLoopFree(p)
    /\ \E conn \in Connections :
          last' = [last EXCEPT !.pc[p] = IF conn = "ok" THEN "connected" ELSE "refused",
                               !.runs[p] = @ + 1,
                               !.overlapped = @ \/ Overlaps(p)]
    /\ UNCHANGED <<settings, endpoint_status, store>>

\* init_schema: the exists request
ExistsRequest(p) ==
    /\ last.pc[p] = "connected"
    /\ EventLoopFree(p)
    /\ last' = [last EXCEPT !.pc[p] = "checked",
                            !.seen[p] = collections_exists(store),
                            !.exists_requests = @ + 1,
                            !.overlapped = @ \/ Overlaps(p)]
    /\ UNCHANGED <<settings, endpoint_status, store>>

\* init_schema: the collection exists, return
ReturnExisting(p) ==
    /\ last.pc[p] = "checked"
    /\ ~NeedsCreate(last.seen[p])
    /\ EventLoopFree(p)
    /\ last' = [last EXCEPT !.pc[p] = "done", !.overlapped = @ \/ Overlaps(p)]
    /\ UNCHANGED <<settings, endpoint_status, store>>

\* init_schema: the create request; its exception leaves __init__ as a
\* RuntimeError
CreateRequest(p) ==
    /\ last.pc[p] = "checked"
    /\ NeedsCreate(last.seen[p])
    /\ EventLoopFree(p)
    /\ \E duplicate \in {"rejected", "accepted"} :
          LET made == collections_create(store, duplicate)
          IN  /\ last' = [last EXCEPT !.pc[p] = IF made.res.ok THEN "done" ELSE "raised",
                                      !.create_requests = @ + 1,
                                      !.overlapped = @ \/ Overlaps(p)]
              /\ store' = made.store
    /\ UNCHANGED <<settings, endpoint_status>>

NextRequests ==
    \E p \in Requests :
        Connect(p) \/ ExistsRequest(p) \/ ReturnExisting(p) \/ CreateRequest(p)

SpecSchema == InitRequests /\ [][NextRequests]_vars

(***************************************************************************)
(* Schema initialisation (C23, C24).                                       *)
(***************************************************************************)
\* C23: two requests initialise a WeaviateClient against a store without
\* the PageContext collection: for any interleaving of their steps, at
\* most one create request is sent, no initialisation that connected
\* fails, and once one has completed the collection exists and was created
\* exactly once.
C23_CreatedOnce ==
    (last.op = "WeaviateClient" /\ ~last.initial.exists) =>
        /\ last.create_requests <= 1
        /\ \A p \in Requests : last.pc[p] # "raised"
        /\ (\E p \in Requests : last.pc[p] = "done")
              => (last.create_requests = 1 /\ store.exists)

\* the same for the requests of one server process, which share its loop
C23_CreatedOnceInOneProcess ==
    last.shared_loop => C23_CreatedOnce

\* C24: init_schema creates the collection only if it does not exist: run
\* any number of times one after the other it sends at most one create
\* request, and none when the collection existed; it leaves an existing
\* collection and the records untouched; no run fails at the create, and
\* after every run that completed the collection exists.
C24_InitSchemaIdempotent ==
    (last.op = "WeaviateClient" /\ ~last.overlapped) =>
        /\ last.create_requests <= 1
        /\ last.create_requests = 1 => (~last.initial.exists /\ store.exists)
        /\ last.initial.exists => (last.create_requests = 0 /\ store = last.initial)
        /\ store.objects = last.initial.objects
        /\ \A p \in Requests : last.pc[p] # "raised"
        /\ \A p \in Requests : last.pc[p] = "done" => store.exists

\* init_schema has run four times, one run after the other, against a
\* collection that holds a record
C24_Witness ==
    /\ last.op = "WeaviateClient"
    /\ ~last.overlapped
    /\ last.initial.objects # <<>>
    /\ \A p \in Requests : last.runs[p] = 2 /\ last.pc[p] = "done"
    /\ last.exists_requests = 4
    /\ store = last.initial

\* init_schema has run four times, one run after the other, against a
\* store that had no collection: the first run created it
C24_CreatedByFirstRun ==
    /\ last.op = "WeaviateClient"
    /\ ~last.overlapped
    /\ ~last.initial.exists
    /\ \A p \in Requests : last.runs[p] = 2 /\ last.pc[p] = "done"
    /\ last.create_requests = 1

(***************************************************************************)
(* The Friendliai key (C25).                                               *)
(***************************************************************************)
\* C25: constructing FriendliaiClient raises ValueError whenever
\* FRIENDLIAI_API_KEY is missing, whatever GEMINI_API_KEY is, and succeeds
\* otherwise; so no query_model call, and no request to Gemini, is made
\* with settings that lack the Friendliai key.
C25_FriendliKeyRequired ==
    /\ last.op = "FriendliaiClient" =>
          /\ last.result.res.ok <=> Truthy(settings.FRIENDLIAI_API_KEY)
          /\ ~Truthy(settings.FRIENDLIAI_API_KEY) =>
                /\ last.result.res.exc = "ValueError"
                /\ last.result.res.msg =
                      "FRIENDLIAI_API_KEY environment variable is required"
                /\ last.result.probes = <<>>
    /\ last.op = "query_model" => Truthy(settings.FRIENDLIAI_API_KEY)

\* a client was constructed with only the Gemini key configured
C25_Witness ==
    /\ last.op = "FriendliaiClient"
    /\ settings.FRIENDLIAI_API_KEY = None
    /\ settings.GEMINI_API_KEY = "gk"
    /\ last.result.res.exc = "ValueError"

\* the consequence for POST /ask-gemini: with only the Gemini key
\* configured it answers 500 and sends no completion request
C25_AskGeminiAnswers500 ==
    (/\ last.op = "ask_question_gemini"
     /\ ~Truthy(settings.FRIENDLIAI_API_KEY)
     /\ Truthy(settings.GEMINI_API_KEY))
        => /\ Response.status = 500
           /\ last.done.requests = <<>>

\* POST /ask-gemini was asked with only the Gemini key configured
C25_AskGeminiAsked ==
    /\ last.op = "ask_question_gemini"
    /\ ~Truthy(settings.FRIENDLIAI_API_KEY)
    /\ Truthy(settings.GEMINI_API_KEY)
    /\ last.embed_ok /\ last.conn = "ok" /\ Len(store.objects) > 0

(***************************************************************************)
(* answer_question (utils/llamaindex_client.py): the pipeline of POST /ask *)
(* as a function, with the same retrieval and the same sources expression; *)
(* its query_model is a coroutine and is awaited.                          *)
(***************************************************************************)
answer_question(question, use_gemini, uuid, embed_ok, conn, order, fr, gm, st, s) ==
    LET none == [store |-> st, calls |-> <<>>, requests |-> <<>>]
        key == LlamaIndexClient_init(s)
        q_emb == query_index(question, embed_ok)
    IN  IF ~key.ok THEN none @@ [res |-> key]
        ELSE IF ~q_emb.ok THEN none @@ [res |-> q_emb]
        ELSE
    LET found == query_similar(q_emb.value, 3, st, conn, order)
        searched == [none EXCEPT !.store = found.store]
    IN  IF ~found.res.ok THEN searched @@ [res |-> found.res]
        ELSE IF found.res.value = <<>>
        THEN searched @@ [res |-> Ok([answer |-> <<NO_DOCUMENTS>>, trace_id |-> uuid,
                                      sources |-> <<>>])]
        ELSE
    LET matches == found.res.value
        prompt == [context |-> JoinTexts(matches), question |-> question]
        made == FriendliaiClient_init(s)
    IN  IF ~made.res.ok THEN searched @@ [res |-> made.res]
        ELSE
    LET asked == query_model(made.res.value, prompt, use_gemini, fr, gm)
        answer == Await(query_model_is_async, asked.res)
        called == [searched EXCEPT !.calls = asked.calls, !.requests = asked.requests]
    IN  IF ~answer.ok THEN called @@ [res |-> answer]
        ELSE called @@ [res |-> Ok([answer |-> answer.value, trace_id |-> uuid,
                                    sources |-> [i \in 1..Len(matches) |->
                                                    Source(matches[i])]])]

\* the settings of a process that calls answer_question
AnswerSettings == {s \in ServiceSettings : s.FRIENDLIAI_ENDPOINT = None}

InitAnswer ==
    /\ settings \in AnswerSettings
    /\ endpoint_status = "200"
    /\ store \in InitialStores
    /\ last = [op |-> "none"]

AnswerQuestion ==
    /\ last.op = "none"
    /\ \E question \in Questions, use_gemini \in BOOLEAN, uuid \in UUIDs,
          embed_ok \in BOOLEAN, conn \in Connections,
          order \in {"stored", "reversed"},
          fr \in HandlerAnswers, gm \in HandlerAnswers :
          LET done == answer_question(question, use_gemini, uuid, embed_ok, conn,
                                      order, fr, gm, store, settings)
          IN  /\ last' = [op |-> "answer_question", question |-> question,
                          use_gemini |-> use_gemini, uuid |-> uuid,
                          embed_ok |-> embed_ok, conn |-> conn, order |-> order,
                          fr |-> fr, gm |-> gm, done |-> Effects(done)]
              /\ store' = done.store
    /\ UNCHANGED <<settings, endpoint_status>>

NextAnswer == AnswerQuestion

SpecAnswer == InitAnswer /\ [][NextAnswer]_vars

C26_BoundaryUntouched ==
    /\ last.op = "answer_question" /\ last.done.res.ok
    /\ \E i \in 1..Len(last.done.res.value.sources) :
          /\ Len(Retrieved[i].text) = 200
          /\ last.done.res.value.sources[i].text = Retrieved[i].text

====
